---- MODULE Spec2Model ----
(***************************************************************************)
(* Client-side state machines of the sheet application (React front end):  *)
(* the page view (PageView.js) with the PageActionProvider context it      *)
(* shares with the Topbar, and the todo view (TodoView.js).                *)
(*                                                                         *)
(* One step of the model is one task of the browser's event loop: a user   *)
(* event with the handler it runs, or the continuation of an async         *)
(* function after an awaited gateway call settles.  React re-renders       *)
(* between two tasks, so a handler reads the state of the latest render;   *)
(* values an async function captured before its await are carried in the   *)
(* record of the request in flight.                                        *)
(***************************************************************************)
EXTENDS Integers, Sequences, FiniteSets, TLC

VARIABLES
    \* which detail route the router shows: "page", "todo", or "none"
    route,
    \* PageActionProvider (contexts/PageActionContext.js)
    isEditing, canEdit, isLoadingSave,
    \* PageView instance (pages/PageView.js)
    mounted, pageSlug, pageData, editData, loading, pageError, editError,
    \* gateway calls in flight, issued by PageView instances
    fetches, saves,
    \* TodoView instance (pages/TodoView.js) and its gateway calls in flight
    todoId, todoDisplayData, todoLoading, todoError, todoFetches, statusCalls,
    \* history: the number of status changes made in the mounted TodoView,
    \* and per row the status it was loaded with and the statuses of the
    \* updates the backend accepted for it
    statusChanges, acceptedStatus,
    \* the browser's cookie string (document.cookie), read by services/api.js
    documentCookie,
    \* NotificationProvider (contexts/NotificationContext.js): the list shown,
    \* and the number of notifications created so far (history)
    notifications, created,
    \* AuthProvider (contexts/AuthContext.js): the session state, the auth
    \* calls in flight, and the location the router shows
    user, isAuthenticated, isLoading, authCalls, location,
    \* history: the last step taken, with the notification it handed to
    \* addNotification, and the page last applied by a fetch
    last, lastFetched

vars == <<route, isEditing, canEdit, isLoadingSave, mounted, pageSlug, pageData,
          editData, loading, pageError, editError, fetches, saves,
          todoId, todoDisplayData, todoLoading, todoError, todoFetches, statusCalls,
          statusChanges, acceptedStatus, documentCookie, notifications, created,
          user, isAuthenticated, isLoading, authCalls, location, last, lastFetched>>

ctxVars  == <<isEditing, canEdit, isLoadingSave>>
todoVars == <<todoId, todoDisplayData, todoLoading, todoError, todoFetches, statusCalls,
              statusChanges, acceptedStatus>>
authVars == <<user, isAuthenticated, isLoading, authCalls, location>>
sideVars == <<documentCookie, notifications, created, authVars>>
viewVars == <<mounted, pageSlug, pageData, editData, loading, pageError, editError>>

-----------------------------------------------------------------------------
(* Bounds of the model *)

\* status changes explored in one mounted todo view
MaxChanges == 2
\* rows an edit buffer may hold before Add Row is no longer explored
MaxRows == 3
\* requests of unmounted PageView instances that may still be in flight
\* when the view is mounted anew
MaxStale == 1
\* cells of one edit buffer that may hold typed text
MaxTyped == 1

-----------------------------------------------------------------------------
(* Values *)

\* JavaScript null, for string-valued state (pageError, editError) and cells
Null == "null"
\* JavaScript null as a row or column id; persisted ids are positive
NullId == 0
\* JavaScript null as pageData / editData
NullData == [null |-> TRUE]
\* an empty slot of a sparse JavaScript array
Hole == "<hole>"

Col(i, n, o) == [id |-> i, name |-> n, order |-> o, width |-> 150]
Row(i, o, c) == [id |-> i, order |-> o, cells |-> c]

\* accounts of the backend
Users == {"ann", "bob"}

\* the session once the auth check of the page load has answered for a
\* signed-in user on a protected route (PrivateRoute renders its children
\* only then): the state every detail view is mounted in
SignedIn ==
    /\ user = "ann" /\ isAuthenticated = TRUE /\ isLoading = FALSE
    /\ authCalls = {}
    /\ location = "/pages"

\* page slugs the router can show
Slugs == {"a", "b"}

\* bodies the backend may answer GET /pages/{slug}/data/ with
PageA == [columns |-> <<Col(1, "A", 1), Col(2, "B", 2)>>,
          rows    |-> <<Row(1, 1, <<"x", "y">>)>>]
PageB == [columns |-> <<Col(3, "C", 1)>>,
          rows    |-> <<Row(5, 2, <<"x">>), Row(6, 5, <<"y">>)>>]
ServerPages == {PageA, PageB}

\* text a user may type into a cell
EditValues == {"v"}

\* todo ids the router can show
TodoIds == {"t1", "t2"}

\* the status enumeration offered by StatusSelect
Statuses == {"NOT_STARTED", "IN_PROGRESS", "COMPLETED"}

St(r, st) == [row_id |-> r, status |-> st]

\* bodies the backend may answer GET /todos/{id}/ with: the statuses are
\* keyed by row id, some for rows the source page does not have
ServerStatuses ==
    { <<St(1, "COMPLETED")>>,
      <<St(6, "IN_PROGRESS"), St(7, "COMPLETED")>> }
ServerTodos == {[source_page |-> [slug |-> "b"], statuses |-> sts] : sts \in ServerStatuses}

\* HTTP status classes fetchData's catch block tells apart
FetchErrors == {404, 403, 500}

Max(S) == CHOOSE x \in S : \A y \in S : y <= x

-----------------------------------------------------------------------------
(* Pure functions of PageView.js *)

\* JSON.parse(JSON.stringify(x)): null stays null, holes of an array become null
DeepCopy(d) ==
    IF d = NullData THEN NullData
    ELSE [columns |-> d.columns,
          rows    |-> [i \in DOMAIN d.rows |->
                         [d.rows[i] EXCEPT !.cells =
                             [j \in DOMAIN @ |-> IF @[j] = Hole THEN Null ELSE @[j]]]]]

\* cells[c] = v on a JavaScript array, c a 0-based index
SetIndex(cells, c, v) ==
    IF c < Len(cells)
    THEN [cells EXCEPT ![c + 1] = v]
    ELSE [j \in 1..(c + 1) |-> IF j <= Len(cells) THEN cells[j]
                               ELSE IF j = c + 1 THEN v ELSE Hole]

\* the updater handleCellChange passes to setEditData; r, c are 0-based
CellChangeData(prev, r, c, v) ==
    IF prev = NullData THEN NullData
    ELSE LET newData == DeepCopy(prev) IN
         IF r >= 0 /\ r < Len(newData.rows)
         THEN [newData EXCEPT !.rows[r + 1].cells = SetIndex(@, c, v)]
         ELSE newData

\* variant: the new row is numbered by its position
AddRowDataByPosition(prev) ==
    LET newData == DeepCopy(prev)
        newRow  == [id |-> NullId, order |-> Len(newData.rows) + 1,
                    cells |-> [j \in 1..Len(newData.columns) |-> ""]]
    IN  [newData EXCEPT !.rows = Append(@, newRow)]

\* the updater handleAddRow passes to setEditData
AddRowData(prev) ==
    LET newData  == DeepCopy(prev)
        newOrder == IF Len(newData.rows) > 0
                    THEN Max({0} \cup {newData.rows[i].order : i \in DOMAIN newData.rows}) + 1
                    ELSE 1
        newRow   == [id |-> NullId, order |-> newOrder,
                     cells |-> [j \in 1..Len(newData.columns) |-> ""]]
    IN  [newData EXCEPT !.rows = Append(@, newRow)]

\* Array.prototype.filter keeping the rows whose id !== rowId
RECURSIVE FilterRows(_, _)
FilterRows(rows, rowId) ==
    IF rows = <<>> THEN <<>>
    ELSE IF Head(rows).id # rowId
         THEN <<Head(rows)>> \o FilterRows(Tail(rows), rowId)
         ELSE FilterRows(Tail(rows), rowId)

\* variant: the kept rows are not renumbered
DeleteRowDataKeepOrder(prev, rowId) ==
    LET newData == DeepCopy(prev)
    IN  [newData EXCEPT !.rows = FilterRows(newData.rows, rowId)]

\* the updater handleDeleteRow passes to setEditData
DeleteRowData(prev, rowId) ==
    LET newData == DeepCopy(prev)
        kept    == FilterRows(newData.rows, rowId)
    IN  [newData EXCEPT !.rows = [i \in DOMAIN kept |-> [kept[i] EXCEPT !.order = i]]]

\* variant: the column entries carry no width
SavePayloadNoWidth(d) ==
    [columns |-> [i \in DOMAIN d.columns |->
                    [id |-> d.columns[i].id, name |-> d.columns[i].name,
                     order |-> d.columns[i].order]],
     rows    |-> [i \in DOMAIN d.rows |->
                    [id |-> d.rows[i].id, order |-> d.rows[i].order,
                     cells |-> d.rows[i].cells]]]

\* the payload handleSaveChanges builds; `x || null` maps a falsy id to null
SavePayload(d) ==
    [columns |-> [i \in DOMAIN d.columns |->
                    [id |-> d.columns[i].id, name |-> d.columns[i].name,
                     order |-> d.columns[i].order, width |-> d.columns[i].width]],
     rows    |-> [i \in DOMAIN d.rows |->
                    [id |-> d.rows[i].id, order |-> d.rows[i].order,
                     cells |-> d.rows[i].cells]]]

\* what the page view renders in the table
DisplayData ==
    LET shown == IF isEditing THEN editData ELSE pageData
    IN  IF shown = NullData THEN [columns |-> <<>>, rows |-> <<>>] ELSE shown

\* variant: one mounted flag shared by every instance of the view
IsMountedAnyInstance(r) == mounted

\* isMounted.current as read by the continuation of the request r: the ref
\* belongs to the instance that issued r (r.live: that instance is the one
\* mounted, if any is)
IsMounted(r) == mounted /\ r.live

-----------------------------------------------------------------------------
(* PageView: requests in flight *)

\* a GET /pages/{slug}/data/ in flight.  kind "effect": issued by the mount
\* effect with an AbortController; kind "refetch": issued by handleSaveChanges
\* without one.  History: newest, no fetch was issued after it; sent, the
\* buffer of the save a refetch follows.
FetchRec(slug, kind, sent) ==
    [live |-> TRUE, slug |-> slug, kind |-> kind, aborted |-> FALSE, newest |-> TRUE,
     sent |-> sent]

\* fetchData's synchronous part ran in the mounted instance: a new request
\* is in flight
IssueFetch(fs, slug, kind, sent) ==
    {[f EXCEPT !.newest = FALSE] : f \in fs} \cup {FetchRec(slug, kind, sent)}

\* the effect cleanup: abortController.abort() of the mount effect's fetch
AbortEffectFetch(fs) ==
    {IF f.live /\ f.kind = "effect" THEN [f EXCEPT !.aborted = TRUE] ELSE f : f \in fs}

\* the mounted instance is unmounted: its isMounted ref is false from now on
\* (the history fields of its requests are no longer read and are cleared)
RetireFetches(fs) == {[f EXCEPT !.live = FALSE, !.sent = NullData] : f \in fs}
\* the request r has settled: it leaves the set of requests in flight, and
\* those issued after it move up one place
Settled(rs, r) ==
    {[t EXCEPT !.n = IF r.n > 0 /\ t.n > r.n THEN t.n - 1 ELSE t.n] : t \in rs \ {r}}

RetireSaves(ss) == {[s EXCEPT !.live = FALSE, !.buf = NullData, !.n = 0] : s \in ss}

\* a POST /pages/{slug}/save/ in flight; buf is the buffer handleSaveChanges
\* read when it was invoked (history), and n tells two requests with the
\* same payload apart: its place among the requests of the instance that
\* are in flight, in the order they were issued
SaveRec(slug, buf) ==
    [live |-> TRUE, slug |-> slug, payload |-> SavePayload(buf), buf |-> buf,
     n |-> Cardinality({s \in saves : s.live}) + 1]

-----------------------------------------------------------------------------
(* PageView: mounting *)

PageInit ==
    /\ route = "page"
    /\ isEditing = FALSE /\ canEdit = FALSE /\ isLoadingSave = FALSE
    /\ mounted = TRUE
    /\ pageSlug = "a"
    /\ pageData = NullData /\ editData = NullData
    /\ loading = TRUE
    /\ pageError = Null /\ editError = Null
    /\ fetches = {FetchRec(pageSlug, "effect", NullData)}
    /\ saves = {}
    /\ todoId = Null /\ todoDisplayData = NullData
    /\ todoLoading = FALSE /\ todoError = Null
    /\ todoFetches = {} /\ statusCalls = {}
    /\ statusChanges = 0 /\ acceptedStatus = <<>>
    /\ documentCookie = <<>>
    /\ notifications = <<>> /\ created = 0
    /\ SignedIn
    /\ last = [op |-> "mount"]
    /\ lastFetched = NullData

\* MainLayout renders again (sidebar toggled, or the location changed to the
\* page `slug`) while a page route stays matched.  MainContentOutlet is a new
\* component type on every render of MainLayout, so the PageView under it is
\* unmounted and a new instance is mounted; the PageActionProvider above it
\* keeps its state.
Remount(slug) ==
    /\ route = "page" /\ mounted
    /\ Cardinality(fetches) + Cardinality(saves) <= MaxStale
    /\ pageSlug' = slug
    /\ pageData' = NullData /\ editData' = NullData
    /\ loading' = TRUE
    /\ pageError' = Null /\ editError' = Null
    /\ fetches' = IssueFetch(RetireFetches(AbortEffectFetch(fetches)), slug, "effect",
                              NullData)
    /\ saves' = RetireSaves(saves)
    /\ last' = [op |-> "remount"]
    /\ lastFetched' = NullData
    /\ UNCHANGED <<route, sideVars, todoVars, ctxVars, mounted>>

\* the router leaves the page routes: PageView and its provider are unmounted
Unmount ==
    /\ route = "page" /\ mounted
    /\ mounted' = FALSE
    /\ fetches' = AbortEffectFetch(fetches)
    /\ last' = [op |-> "unmount"]
    /\ UNCHANGED <<route, sideVars, todoVars, ctxVars, pageSlug, pageData, editData, loading,
                   pageError, editError, saves, lastFetched>>

-----------------------------------------------------------------------------
(* PageView: fetchData continuations *)

\* the finally block of handleSaveChanges, reached when its awaited
\* fetchData() returns
AfterRefetch(f) == IF f.kind = "refetch" THEN FALSE ELSE isLoadingSave

\* GET resolved with `page`
FetchResolve(f, page) ==
    /\ route = "page" /\ f \in fetches /\ ~f.aborted
    /\ fetches' = fetches \ {f}
    /\ IF IsMounted(f)
       THEN /\ pageData' = page
            /\ canEdit' = TRUE
            /\ editData' = DeepCopy(page)
            /\ loading' = FALSE
            /\ isLoadingSave' = AfterRefetch(f)
            /\ lastFetched' = page
            /\ last' = [op |-> "fetchApplied", newest |-> f.newest, slug |-> f.slug,
                        kind |-> f.kind,
                        lost |-> f.kind = "refetch" /\ editData # f.sent
                                 /\ DeepCopy(page) # editData]
            /\ UNCHANGED <<route, sideVars, todoVars, isEditing, mounted, pageSlug, pageError,
                           editError, saves>>
       ELSE /\ last' = [op |-> "fetchDropped", slug |-> f.slug]
            /\ UNCHANGED <<route, sideVars, todoVars, ctxVars, viewVars, saves, lastFetched>>

FetchErrorText(status) ==
    IF status = 404 THEN "Page not found."
    ELSE IF status = 403 THEN "You do not have permission to view this page."
    ELSE "Could not load page data."

\* GET rejected with an HTTP error
FetchReject(f, status) ==
    /\ route = "page" /\ f \in fetches /\ ~f.aborted
    /\ fetches' = fetches \ {f}
    /\ IF IsMounted(f)
       THEN /\ pageError' = FetchErrorText(status)
            /\ canEdit' = IF status = 403 THEN FALSE ELSE canEdit
            /\ loading' = FALSE
            /\ isLoadingSave' = AfterRefetch(f)
            /\ last' = [op |-> "fetchFailed", notify |-> "error"]
            /\ UNCHANGED <<route, sideVars, todoVars, isEditing, mounted, pageSlug, pageData,
                           editData, editError, saves, lastFetched>>
       ELSE /\ last' = [op |-> "fetchDropped", slug |-> f.slug]
            /\ UNCHANGED <<route, sideVars, todoVars, ctxVars, viewVars, saves, lastFetched>>

\* GET rejected with CanceledError after abort(): the catch block returns,
\* the finally block still runs
FetchCanceled(f) ==
    /\ route = "page" /\ f \in fetches /\ f.aborted
    /\ fetches' = fetches \ {f}
    /\ loading' = IF IsMounted(f) THEN FALSE ELSE loading
    /\ last' = [op |-> "fetchCanceled"]
    /\ UNCHANGED <<route, sideVars, todoVars, ctxVars, mounted, pageSlug, pageData, editData,
                   pageError, editError, saves, lastFetched>>

-----------------------------------------------------------------------------
(* PageView: handlers.  Each handler is the effect of one call; the user    *)
(* events further down say when the rendered controls can call it.          *)

\* handleSaveChanges past its guard: the flag is raised and the POST goes out
SaveStart ==
    /\ isLoadingSave' = TRUE
    /\ saves' = saves \cup {SaveRec(pageSlug, editData)}
    /\ UNCHANGED <<route, sideVars, todoVars, isEditing, canEdit, mounted, pageSlug, pageData,
                   editData, loading, pageError, fetches, lastFetched>>

\* everything handleSaveChanges leaves alone when its guard returns early
SaveSkipped ==
    UNCHANGED <<route, sideVars, todoVars, ctxVars, mounted, pageSlug, pageData, editData, loading,
                pageError, fetches, saves, lastFetched>>

handleSaveChanges ==
    IF ~isEditing \/ editData = NullData
    THEN SaveSkipped /\ UNCHANGED editError
    ELSE SaveStart /\ editError' = Null

\* variant: edit mode is entered whatever canEdit says
handleToggleEditNoGate ==
    /\ editError' = Null
    /\ IF isEditing
       THEN IF editData = NullData THEN SaveSkipped ELSE SaveStart
       ELSE /\ editData' = DeepCopy(IF pageData # NullData THEN pageData ELSE editData)
            /\ isEditing' = TRUE
            /\ UNCHANGED <<route, sideVars, todoVars, canEdit, isLoadingSave, mounted, pageSlug,
                           pageData, loading, pageError, fetches, saves, lastFetched>>

\* variant: toggling while editing leaves edit mode without saving
handleToggleEditNoSave ==
    /\ editError' = Null
    /\ IF isEditing
       THEN /\ isEditing' = FALSE
            /\ UNCHANGED <<route, sideVars, todoVars, canEdit, isLoadingSave, mounted, pageSlug,
                           pageData, editData, loading, pageError, fetches, saves, lastFetched>>
       ELSE IF ~canEdit
            THEN /\ UNCHANGED <<route, sideVars, todoVars, ctxVars, mounted, pageSlug, pageData,
                                editData, loading, pageError, fetches, saves, lastFetched>>
            ELSE /\ editData' = DeepCopy(IF pageData # NullData THEN pageData ELSE editData)
                 /\ isEditing' = TRUE
                 /\ UNCHANGED <<route, sideVars, todoVars, canEdit, isLoadingSave, mounted, pageSlug,
                                pageData, loading, pageError, fetches, saves, lastFetched>>

handleToggleEdit ==
    /\ editError' = Null
    /\ IF isEditing
       THEN IF editData = NullData THEN SaveSkipped ELSE SaveStart
       ELSE IF ~canEdit
            THEN /\ UNCHANGED <<route, sideVars, todoVars, ctxVars, mounted, pageSlug, pageData,
                                editData, loading, pageError, fetches, saves, lastFetched>>
            ELSE /\ editData' = DeepCopy(IF pageData # NullData THEN pageData ELSE editData)
                 /\ isEditing' = TRUE
                 /\ UNCHANGED <<route, sideVars, todoVars, canEdit, isLoadingSave, mounted, pageSlug,
                                pageData, loading, pageError, fetches, saves, lastFetched>>

\* variant: leaving edit mode keeps the buffer as edited
handleCancelEditKeepBuffer ==
    /\ isEditing' = FALSE
    /\ editError' = Null
    /\ UNCHANGED <<route, sideVars, todoVars, canEdit, isLoadingSave, mounted, pageSlug, pageData,
                   editData, loading, pageError, fetches, saves, lastFetched>>

\* variant: leaving edit mode drops the buffer
handleCancelEditDropBuffer ==
    /\ isEditing' = FALSE
    /\ editError' = Null
    /\ editData' = NullData
    /\ UNCHANGED <<route, sideVars, todoVars, canEdit, isLoadingSave, mounted, pageSlug, pageData,
                   loading, pageError, fetches, saves, lastFetched>>

handleCancelEdit ==
    /\ isEditing' = FALSE
    /\ editError' = Null
    /\ editData' = IF pageData # NullData THEN DeepCopy(pageData) ELSE NullData
    /\ UNCHANGED <<route, sideVars, todoVars, canEdit, isLoadingSave, mounted, pageSlug, pageData,
                   loading, pageError, fetches, saves, lastFetched>>

\* variant: the buffer shares its object with the canonical page
handleCellChangeShared(rowIndex, colIndex, value) ==
    /\ editData' = IF isEditing THEN CellChangeData(editData, rowIndex, colIndex, value)
                   ELSE editData
    /\ pageData' = editData'
    /\ UNCHANGED <<route, sideVars, todoVars, ctxVars, mounted, pageSlug, loading,
                   pageError, editError, fetches, saves, lastFetched>>

handleCellChange(rowIndex, colIndex, value) ==
    /\ editData' = IF isEditing THEN CellChangeData(editData, rowIndex, colIndex, value)
                   ELSE editData
    /\ UNCHANGED <<route, sideVars, todoVars, ctxVars, mounted, pageSlug, pageData, loading,
                   pageError, editError, fetches, saves, lastFetched>>

handleAddRow ==
    /\ editData' = IF isEditing /\ editData # NullData THEN AddRowData(editData)
                   ELSE editData
    /\ UNCHANGED <<route, sideVars, todoVars, ctxVars, mounted, pageSlug, pageData, loading,
                   pageError, editError, fetches, saves, lastFetched>>

handleDeleteRow(rowIdToDelete) ==
    /\ editData' = IF isEditing /\ editData # NullData
                   THEN DeleteRowData(editData, rowIdToDelete)
                   ELSE editData
    /\ UNCHANGED <<route, sideVars, todoVars, ctxVars, mounted, pageSlug, pageData, loading,
                   pageError, editError, fetches, saves, lastFetched>>

-----------------------------------------------------------------------------
(* PageView: what is rendered *)

\* Topbar shows the page action buttons
ShowPageActions == route = "page" /\ mounted /\ canEdit

\* PageView is past its loading / error returns and renders the table
TableRendered == route = "page" /\ mounted /\ pageData # NullData

\* PageView renders the editing controls bar
EditBarRendered == TableRendered /\ isEditing

\* a Button of components/common passes its disabled prop to the element:
\* a disabled control takes no click
ButtonEnabled(disabled) == ~disabled

-----------------------------------------------------------------------------
(* PageView: user events *)

\* Topbar Edit/Save button
ClickToggleEdit ==
    /\ ShowPageActions /\ ButtonEnabled(isLoadingSave)
    /\ handleToggleEdit
    /\ last' = [op |-> IF isEditing THEN "save" ELSE "enterEdit",
                notify |-> IF ~isEditing /\ ~canEdit THEN "warning" ELSE "none"]

\* "Save Page" button of the editing controls bar
ClickSave ==
    /\ EditBarRendered /\ ButtonEnabled(isLoadingSave)
    /\ handleSaveChanges
    /\ last' = [op |-> "save"]

\* "Cancel" button of the editing controls bar
ClickCancel ==
    /\ EditBarRendered /\ ButtonEnabled(isLoadingSave)
    /\ handleCancelEdit
    /\ last' = [op |-> "cancel", edited |-> editData # pageData]

\* Topbar Add Row button
ClickAddRow ==
    /\ ShowPageActions /\ ButtonEnabled(~isEditing \/ isLoadingSave)
    /\ editData # NullData => Len(editData.rows) < MaxRows
    /\ handleAddRow
    /\ last' = [op |-> "addRow"]

\* number of cells of the buffer d that hold typed text
Typed(d) ==
    Cardinality({<<i, j>> \in (1..MaxRows) \X (1..2) :
                    /\ i <= Len(d.rows) /\ j <= Len(d.rows[i].cells)
                    /\ d.rows[i].cells[j] \in EditValues})

\* an EditableCell of the table loses focus with a changed value
CellBlur(rowIndex, colIndex, value) ==
    /\ EditBarRendered
    /\ Typed(DisplayData) < MaxTyped
    /\ rowIndex \in 0..(Len(DisplayData.rows) - 1)
    /\ colIndex \in 0..(Len(DisplayData.columns) - 1)
    /\ LET cells == DisplayData.rows[rowIndex + 1].cells
           shown == IF colIndex < Len(cells) /\ cells[colIndex + 1] \notin {Null, Hole}
                    THEN cells[colIndex + 1] ELSE ""
       IN  value # shown
    /\ handleCellChange(rowIndex, colIndex, value)
    /\ last' = [op |-> "cellEdit"]

\* the delete button of a table row; disabled={!row.id}
ClickDeleteRow(rowIndex) ==
    /\ EditBarRendered
    /\ rowIndex \in 0..(Len(DisplayData.rows) - 1)
    /\ ButtonEnabled(DisplayData.rows[rowIndex + 1].id = NullId)
    /\ handleDeleteRow(DisplayData.rows[rowIndex + 1].id)
    /\ last' = [op |-> "deleteRow", id |-> DisplayData.rows[rowIndex + 1].id,
                buf |-> editData]

-----------------------------------------------------------------------------
(* PageView: handleSaveChanges continuations *)

\* POST resolved
SaveResolve(s) ==
    /\ route = "page" /\ s \in saves
    /\ saves' = Settled(saves, s)
    /\ IF IsMounted(s)
       THEN /\ isEditing' = FALSE
            \* await fetchData(): the closure's fetchData, called without signal
            /\ loading' = TRUE
            /\ pageError' = Null
            /\ fetches' = IssueFetch(fetches, s.slug, "refetch", s.buf)
            /\ last' = [op |-> "saveAccepted", handled |-> TRUE, notify |-> "success"]
            /\ UNCHANGED <<route, sideVars, todoVars, canEdit, isLoadingSave, mounted, pageSlug,
                           pageData, editData, editError, lastFetched>>
       ELSE /\ last' = [op |-> "saveAccepted", handled |-> FALSE, notify |-> "none"]
            /\ UNCHANGED <<route, sideVars, todoVars, ctxVars, viewVars, fetches, lastFetched>>

\* messages the catch block of handleSaveChanges can extract
SaveErrorTexts == {"Failed to save changes."}

\* variant: a rejected save resets the buffer to the canonical page
SaveRejectResetBuffer(s, errorMsg) ==
    /\ route = "page" /\ s \in saves
    /\ saves' = Settled(saves, s)
    /\ IF IsMounted(s)
       THEN /\ editError' = errorMsg
            /\ isLoadingSave' = FALSE
            /\ editData' = DeepCopy(pageData)
            /\ last' = [op |-> "saveRejected", handled |-> TRUE, notify |-> "error",
                        quiet |-> last.op = "save", buf |-> s.buf]
            /\ UNCHANGED <<route, sideVars, todoVars, isEditing, canEdit, mounted, pageSlug, pageData,
                           loading, pageError, fetches, lastFetched>>
       ELSE /\ last' = [op |-> "saveRejected", handled |-> FALSE, notify |-> "none",
                        quiet |-> FALSE, buf |-> NullData]
            /\ UNCHANGED <<route, sideVars, todoVars, ctxVars, viewVars, fetches, lastFetched>>

\* POST rejected
SaveReject(s, errorMsg) ==
    /\ route = "page" /\ s \in saves
    /\ saves' = Settled(saves, s)
    /\ IF IsMounted(s)
       THEN /\ editError' = errorMsg
            /\ isLoadingSave' = FALSE
            /\ last' = [op |-> "saveRejected", handled |-> TRUE, notify |-> "error",
                        quiet |-> last.op = "save", buf |-> s.buf]
            /\ UNCHANGED <<route, sideVars, todoVars, isEditing, canEdit, mounted, pageSlug, pageData,
                           editData, loading, pageError, fetches, lastFetched>>
       ELSE /\ last' = [op |-> "saveRejected", handled |-> FALSE, notify |-> "none",
                        quiet |-> FALSE, buf |-> NullData]
            /\ UNCHANGED <<route, sideVars, todoVars, ctxVars, viewVars, fetches, lastFetched>>

-----------------------------------------------------------------------------
(* TodoView: pure functions *)

\* new Map(statuses.map(s => [s.row_id, s.status])).get(id): the entry added
\* last for the key wins; Null stands for undefined
RECURSIVE StatusMapGet(_, _)
StatusMapGet(statuses, id) ==
    IF statuses = <<>> THEN Null
    ELSE LET later == StatusMapGet(Tail(statuses), id) IN
         IF later # Null THEN later
         ELSE IF Head(statuses).row_id = id THEN Head(statuses).status ELSE Null

\* statusMap.get(row.id) || 'NOT_STARTED'
StatusOf(statuses, id) ==
    LET found == StatusMapGet(statuses, id)
    IN  IF found \in {Null, ""} THEN "NOT_STARTED" ELSE found

\* variant: the i-th row takes the i-th entry of the status list
CombineRowsByPosition(sourcePage, fetchedTodo) ==
    [i \in DOMAIN sourcePage.rows |->
        [id     |-> sourcePage.rows[i].id,
         order  |-> sourcePage.rows[i].order,
         cells  |-> sourcePage.rows[i].cells,
         status |-> IF i \in DOMAIN fetchedTodo.statuses
                    THEN fetchedTodo.statuses[i].status ELSE "NOT_STARTED"]]

\* sourcePage.rows.map(row => ({...row, status}))
CombineRows(sourcePage, fetchedTodo) ==
    [i \in DOMAIN sourcePage.rows |->
        [id     |-> sourcePage.rows[i].id,
         order  |-> sourcePage.rows[i].order,
         cells  |-> sourcePage.rows[i].cells,
         status |-> StatusOf(fetchedTodo.statuses, sourcePage.rows[i].id)]]

\* finalData of fetchTodoData
FinalData(sourcePage, fetchedTodo) ==
    [todoInfo |-> fetchedTodo, sourcePageInfo |-> sourcePage,
     rows |-> CombineRows(sourcePage, fetchedTodo)]

\* JSON.parse(JSON.stringify(todoDisplayData))
DeepCopyTodo(d) ==
    IF d = NullData THEN NullData
    ELSE [todoInfo |-> d.todoInfo,
          sourcePageInfo |-> DeepCopy(d.sourcePageInfo),
          rows |-> [i \in DOMAIN d.rows |->
                      [d.rows[i] EXCEPT !.cells =
                          [j \in DOMAIN @ |-> IF @[j] = Hole THEN Null ELSE @[j]]]]]

\* previousData of handleStatusChange, taken from the rendered state before
\* the optimistic update is queued
PreviousData(shown) == DeepCopyTodo(shown)

\* variant: the new status is written to every row
OptimisticDataAllRows(prevData, rowId, newStatus) ==
    IF prevData = NullData THEN NullData
    ELSE [prevData EXCEPT !.rows = [i \in DOMAIN @ |-> [@[i] EXCEPT !.status = newStatus]]]

\* the updater handleStatusChange passes to setTodoDisplayData
OptimisticData(prevData, rowId, newStatus) ==
    IF prevData = NullData THEN NullData
    ELSE [prevData EXCEPT !.rows =
            [i \in DOMAIN @ |-> IF @[i].id = rowId THEN [@[i] EXCEPT !.status = newStatus]
                                ELSE @[i]]]

-----------------------------------------------------------------------------
(* TodoView: requests in flight *)

\* fetchTodoData awaiting a GET.  stage "detail": GET /todos/{id}/; stage
\* "page": GET /pages/{slug}/data/ with the detail `todo` already received.
\* History: newest, no fetchTodoData was started after this one.
TodoFetchRec(id) ==
    [live |-> TRUE, todoId |-> id, stage |-> "detail", todo |-> NullData,
     aborted |-> FALSE, newest |-> TRUE]

IssueTodoFetch(fs, id) ==
    {[f EXCEPT !.newest = FALSE] : f \in fs} \cup {TodoFetchRec(id)}

\* the effect cleanup: abortController.abort()
AbortTodoFetch(fs) == {IF f.live THEN [f EXCEPT !.aborted = TRUE] ELSE f : f \in fs}

RetireTodoFetches(fs) == {[f EXCEPT !.live = FALSE, !.todo = NullData] : f \in fs}

\* a PATCH /todos/{id}/status/{rowId}/ in flight, with the previousData of
\* the handleStatusChange call awaiting it.  History: shown, the combined
\* view as rendered when the call was invoked; n tells two calls with the
\* same arguments apart, as in SaveRec.
StatusRec(id, rowId, newStatus, shown) ==
    [live |-> TRUE, todoId |-> id, rowId |-> rowId, status |-> newStatus,
     previousData |-> PreviousData(shown), shown |-> shown,
     n |-> Cardinality({c \in statusCalls : c.live}) + 1]

\* the mounted instance is unmounted: the continuation of its calls no longer
\* reads what the call captured
RetireStatusCalls(cs) ==
    {[c EXCEPT !.live = FALSE, !.rowId = NullId, !.status = Null,
               !.previousData = NullData, !.shown = NullData, !.n = 0] : c \in cs}

-----------------------------------------------------------------------------
(* TodoView: mounting *)

TodoInit ==
    /\ route = "todo"
    /\ isEditing = FALSE /\ canEdit = FALSE /\ isLoadingSave = FALSE
    /\ mounted = TRUE
    /\ pageSlug = Null
    /\ pageData = NullData /\ editData = NullData
    /\ loading = FALSE
    /\ pageError = Null /\ editError = Null
    /\ fetches = {} /\ saves = {}
    /\ todoId = "t1"
    /\ todoDisplayData = NullData
    /\ todoLoading = TRUE
    /\ todoError = Null
    /\ todoFetches = {TodoFetchRec(todoId)}
    /\ statusCalls = {}
    /\ statusChanges = 0 /\ acceptedStatus = <<>>
    /\ documentCookie = <<>>
    /\ notifications = <<>> /\ created = 0
    /\ SignedIn
    /\ last = [op |-> "mount"]
    /\ lastFetched = NullData

\* MainLayout renders again (sidebar toggled, or the location changed to the
\* todo `id`): the TodoView under MainContentOutlet is unmounted and a new
\* instance is mounted
TodoRemount(id) ==
    /\ route = "todo" /\ mounted
    /\ Cardinality(todoFetches) + Cardinality(statusCalls) <= MaxStale
    /\ todoId' = id
    /\ todoDisplayData' = NullData
    /\ todoLoading' = TRUE
    /\ todoError' = Null
    /\ todoFetches' = IssueTodoFetch(RetireTodoFetches(AbortTodoFetch(todoFetches)), id)
    /\ statusCalls' = RetireStatusCalls(statusCalls)
    /\ statusChanges' = 0 /\ acceptedStatus' = <<>>
    /\ last' = [op |-> "remount"]
    /\ UNCHANGED <<route, sideVars, ctxVars, viewVars, fetches, saves, lastFetched>>

\* the router leaves the todo route
TodoUnmount ==
    /\ route = "todo" /\ mounted
    /\ mounted' = FALSE
    /\ todoFetches' = AbortTodoFetch(todoFetches)
    /\ last' = [op |-> "unmount"]
    /\ UNCHANGED <<route, sideVars, ctxVars, pageSlug, pageData, editData, loading, pageError,
                   editError, fetches, saves, todoId, todoDisplayData, todoLoading,
                   todoError, statusCalls, statusChanges, acceptedStatus, lastFetched>>

-----------------------------------------------------------------------------
(* TodoView: fetchTodoData continuations *)

TodoUntouched == <<route, sideVars, ctxVars, viewVars, fetches, saves, lastFetched>>

\* GET /todos/{id}/ resolved with `todo`: the second GET goes out
TodoDetailResolve(f, todo) ==
    /\ route = "todo" /\ f \in todoFetches /\ ~f.aborted /\ f.stage = "detail"
    /\ IF IsMounted(f)
       THEN /\ todoFetches' = (todoFetches \ {f}) \cup
                                 {[f EXCEPT !.stage = "page", !.todo = todo]}
            /\ last' = [op |-> "todoDetail"]
       ELSE /\ todoFetches' = todoFetches \ {f}
            /\ last' = [op |-> "todoFetchDropped"]
    /\ UNCHANGED <<TodoUntouched, statusChanges, acceptedStatus, todoId, todoDisplayData,
                   todoLoading, todoError,
                   statusCalls>>

\* history: the statuses of the rows as loaded (d) / after the backend
\* accepted the update of call c
LoadedStatus(d) ==
    [i \in DOMAIN d.rows |-> [loaded |-> d.rows[i].status, accepted |-> {}]]
AcceptedStatus(acc, d, c) ==
    IF d = NullData \/ ~IsMounted(c) THEN acc
    ELSE [i \in DOMAIN acc |->
            IF d.rows[i].id = c.rowId
            THEN [acc[i] EXCEPT !.accepted = @ \cup {c.status}]
            ELSE acc[i]]

\* GET /pages/{slug}/data/ resolved with `sourcePage`: the rows are combined
TodoPageResolve(f, sourcePage) ==
    /\ route = "todo" /\ f \in todoFetches /\ ~f.aborted /\ f.stage = "page"
    /\ todoFetches' = todoFetches \ {f}
    /\ IF IsMounted(f)
       THEN /\ todoDisplayData' = FinalData(sourcePage, f.todo)
            /\ todoLoading' = FALSE
            /\ acceptedStatus' = LoadedStatus(FinalData(sourcePage, f.todo))
            /\ last' = [op |-> "todoLoaded", newest |-> f.newest, todoId |-> f.todoId,
                        page |-> sourcePage, todo |-> f.todo]
       ELSE /\ last' = [op |-> "todoFetchDropped"]
            /\ UNCHANGED <<todoDisplayData, todoLoading, acceptedStatus>>
    /\ UNCHANGED <<TodoUntouched, statusChanges, todoId, todoError, statusCalls>>

TodoErrorText(status) ==
    IF status = 403 THEN "You do not have permission to view this ToDo list."
    ELSE IF status = 404 THEN "ToDo list or its source page not found."
    ELSE "Could not load ToDo data."

\* either GET rejected with an HTTP error
TodoFetchReject(f, status) ==
    /\ route = "todo" /\ f \in todoFetches /\ ~f.aborted
    /\ todoFetches' = todoFetches \ {f}
    /\ IF IsMounted(f)
       THEN /\ todoError' = TodoErrorText(status)
            /\ todoLoading' = FALSE
            /\ last' = [op |-> "todoFetchFailed", notify |-> "error"]
       ELSE /\ last' = [op |-> "todoFetchDropped"]
            /\ UNCHANGED <<todoError, todoLoading>>
    /\ UNCHANGED <<TodoUntouched, statusChanges, acceptedStatus, todoId, todoDisplayData, statusCalls>>

\* either GET rejected with CanceledError after abort()
TodoFetchCanceled(f) ==
    /\ route = "todo" /\ f \in todoFetches /\ f.aborted
    /\ todoFetches' = todoFetches \ {f}
    /\ todoLoading' = IF IsMounted(f) THEN FALSE ELSE todoLoading
    /\ last' = [op |-> "todoFetchCanceled"]
    /\ UNCHANGED <<TodoUntouched, statusChanges, acceptedStatus, todoId, todoDisplayData,
                   todoError, statusCalls>>

-----------------------------------------------------------------------------
(* TodoView: status updates *)

\* handleStatusChange up to its await
handleStatusChange(rowId, newStatus) ==
    /\ IF todoDisplayData = NullData
       THEN UNCHANGED <<todoDisplayData, statusCalls>>
       ELSE /\ todoDisplayData' = OptimisticData(todoDisplayData, rowId, newStatus)
            /\ statusCalls' = statusCalls \cup
                                {StatusRec(todoId, rowId, newStatus, todoDisplayData)}
    /\ UNCHANGED <<TodoUntouched, todoId, todoLoading, todoError, todoFetches>>

\* TodoView is past its loading / error returns and renders the table
TodoTableRendered ==
    route = "todo" /\ mounted /\ ~todoLoading /\ todoError = Null
    /\ todoDisplayData # NullData

\* PageView renders the error panel with pageError in place of the table
ErrorPanelShown ==
    /\ route = "page" /\ mounted
    /\ ~(loading /\ pageData = NullData)
    /\ pageError # Null /\ pageData = NullData

\* TodoView renders the error panel with its error in place of the table
TodoErrorPanelShown == route = "todo" /\ mounted /\ ~todoLoading /\ todoError # Null

\* the user picks another option in the StatusSelect of a row
SelectStatus(rowIndex, newStatus) ==
    /\ TodoTableRendered
    /\ statusChanges < MaxChanges
    /\ rowIndex \in 1..Len(todoDisplayData.rows)
    /\ newStatus # todoDisplayData.rows[rowIndex].status
    /\ handleStatusChange(todoDisplayData.rows[rowIndex].id, newStatus)
    /\ statusChanges' = statusChanges + 1
    /\ UNCHANGED acceptedStatus
    /\ last' = [op |-> "statusChange", rowId |-> todoDisplayData.rows[rowIndex].id,
                status |-> newStatus]

\* PATCH resolved
StatusResolve(c) ==
    /\ route = "todo" /\ c \in statusCalls
    /\ statusCalls' = Settled(statusCalls, c)
    /\ acceptedStatus' = AcceptedStatus(acceptedStatus, todoDisplayData, c)
    /\ last' = [op |-> "statusSaved", notify |-> "success"]
    /\ UNCHANGED <<TodoUntouched, statusChanges, todoId, todoDisplayData, todoLoading, todoError,
                   todoFetches>>

\* variant: the optimistic update is not taken back
StatusRejectNoRevert(c) ==
    /\ route = "todo" /\ c \in statusCalls
    /\ statusCalls' = Settled(statusCalls, c)
    /\ last' = [op |-> "statusRejected", notify |-> "error", handled |-> IsMounted(c),
                shown |-> c.shown, reverted |-> FALSE]
    /\ UNCHANGED <<TodoUntouched, statusChanges, acceptedStatus, todoId, todoDisplayData,
                   todoLoading, todoError,
                   todoFetches>>

\* PATCH rejected.  History: reverted, the restore undid the optimistic update
\* of another call as well
StatusReject(c) ==
    /\ route = "todo" /\ c \in statusCalls
    /\ statusCalls' = Settled(statusCalls, c)
    /\ todoDisplayData' = IF IsMounted(c) THEN c.previousData ELSE todoDisplayData
    /\ last' = [op |-> "statusRejected", notify |-> "error", handled |-> IsMounted(c),
                shown |-> c.shown,
                reverted |-> IsMounted(c)
                             /\ todoDisplayData # OptimisticData(c.shown, c.rowId, c.status)]
    /\ UNCHANGED <<TodoUntouched, statusChanges, acceptedStatus, todoId, todoLoading, todoError,
                   todoFetches>>

-----------------------------------------------------------------------------
(* Specification *)

Init == PageInit \/ TodoInit

Next ==
    \/ \E slug \in Slugs : Remount(slug)
    \/ Unmount
    \/ \E f \in fetches, page \in ServerPages : FetchResolve(f, page)
    \/ \E f \in fetches, status \in FetchErrors : FetchReject(f, status)
    \/ \E f \in fetches : FetchCanceled(f)
    \/ ClickToggleEdit
    \/ ClickSave
    \/ ClickCancel
    \/ ClickAddRow
    \/ \E r \in 0..(MaxRows - 1), c \in 0..1, v \in EditValues : CellBlur(r, c, v)
    \/ \E r \in 0..(MaxRows - 1) : ClickDeleteRow(r)
    \/ \E s \in saves : SaveResolve(s)
    \/ \E s \in saves, m \in SaveErrorTexts : SaveReject(s, m)
    \/ \E id \in TodoIds : TodoRemount(id)
    \/ TodoUnmount
    \/ \E f \in todoFetches, todo \in ServerTodos : TodoDetailResolve(f, todo)
    \/ \E f \in todoFetches, page \in ServerPages : TodoPageResolve(f, page)
    \/ \E f \in todoFetches, status \in FetchErrors : TodoFetchReject(f, status)
    \/ \E f \in todoFetches : TodoFetchCanceled(f)
    \/ \E r \in 1..MaxRows, st \in Statuses : SelectStatus(r, st)
    \/ \E c \in statusCalls : StatusResolve(c)
    \/ \E c \in statusCalls : StatusReject(c)

Spec == Init /\ [][Next]_vars

-----------------------------------------------------------------------------
(* The development build.  index.js renders the application inside         *)
(* React.StrictMode with createRoot: in a development build React runs the  *)
(* effects of every newly mounted component, cleans them up and runs them   *)
(* again.  For a view this is: isMounted true, fetch 1 issued; isMounted    *)
(* false, fetch 1 aborted; isMounted true, fetch 2 issued.  Both requests   *)
(* belong to the mounted instance, and the continuation of the aborted one  *)
(* (FetchCanceled, TodoFetchCanceled) reads its isMounted ref.              *)

\* the requests of a view mounted under StrictMode
StrictFetches(fs, slug) ==
    IssueFetch(AbortEffectFetch(IssueFetch(fs, slug, "effect", NullData)), slug, "effect",
               NullData)
StrictTodoFetches(fs, id) == IssueTodoFetch(AbortTodoFetch(IssueTodoFetch(fs, id)), id)

StrictPageInit ==
    /\ route = "page"
    /\ isEditing = FALSE /\ canEdit = FALSE /\ isLoadingSave = FALSE
    /\ mounted = TRUE
    /\ pageSlug = "a"
    /\ pageData = NullData /\ editData = NullData
    /\ loading = TRUE
    /\ pageError = Null /\ editError = Null
    /\ fetches = StrictFetches({}, pageSlug)
    /\ saves = {}
    /\ todoId = Null /\ todoDisplayData = NullData
    /\ todoLoading = FALSE /\ todoError = Null
    /\ todoFetches = {} /\ statusCalls = {}
    /\ statusChanges = 0 /\ acceptedStatus = <<>>
    /\ documentCookie = <<>>
    /\ notifications = <<>> /\ created = 0
    /\ SignedIn
    /\ last = [op |-> "mount"]
    /\ lastFetched = NullData

StrictTodoInit ==
    /\ route = "todo"
    /\ isEditing = FALSE /\ canEdit = FALSE /\ isLoadingSave = FALSE
    /\ mounted = TRUE
    /\ pageSlug = Null
    /\ pageData = NullData /\ editData = NullData
    /\ loading = FALSE
    /\ pageError = Null /\ editError = Null
    /\ fetches = {} /\ saves = {}
    /\ todoId = "t1"
    /\ todoDisplayData = NullData
    /\ todoLoading = TRUE
    /\ todoError = Null
    /\ todoFetches = StrictTodoFetches({}, todoId)
    /\ statusCalls = {}
    /\ statusChanges = 0 /\ acceptedStatus = <<>>
    /\ documentCookie = <<>>
    /\ notifications = <<>> /\ created = 0
    /\ SignedIn
    /\ last = [op |-> "mount"]
    /\ lastFetched = NullData

StrictRemount(slug) ==
    /\ route = "page" /\ mounted
    /\ Cardinality(fetches) + Cardinality(saves) <= MaxStale
    /\ pageSlug' = slug
    /\ pageData' = NullData /\ editData' = NullData
    /\ loading' = TRUE
    /\ pageError' = Null /\ editError' = Null
    /\ fetches' = StrictFetches(RetireFetches(AbortEffectFetch(fetches)), slug)
    /\ saves' = RetireSaves(saves)
    /\ last' = [op |-> "remount"]
    /\ lastFetched' = NullData
    /\ UNCHANGED <<route, sideVars, todoVars, ctxVars, mounted>>

StrictTodoRemount(id) ==
    /\ route = "todo" /\ mounted
    /\ Cardinality(todoFetches) + Cardinality(statusCalls) <= MaxStale
    /\ todoId' = id
    /\ todoDisplayData' = NullData
    /\ todoLoading' = TRUE
    /\ todoError' = Null
    /\ todoFetches' = StrictTodoFetches(RetireTodoFetches(AbortTodoFetch(todoFetches)), id)
    /\ statusCalls' = RetireStatusCalls(statusCalls)
    /\ statusChanges' = 0 /\ acceptedStatus' = <<>>
    /\ last' = [op |-> "remount"]
    /\ UNCHANGED <<route, sideVars, ctxVars, viewVars, fetches, saves, lastFetched>>

StrictNext ==
    \/ \E slug \in Slugs : StrictRemount(slug)
    \/ Unmount
    \/ \E f \in fetches, page \in ServerPages : FetchResolve(f, page)
    \/ \E f \in fetches, status \in FetchErrors : FetchReject(f, status)
    \/ \E f \in fetches : FetchCanceled(f)
    \/ ClickToggleEdit
    \/ ClickSave
    \/ ClickCancel
    \/ ClickAddRow
    \/ \E r \in 0..(MaxRows - 1), c \in 0..1, v \in EditValues : CellBlur(r, c, v)
    \/ \E r \in 0..(MaxRows - 1) : ClickDeleteRow(r)
    \/ \E s \in saves : SaveResolve(s)
    \/ \E s \in saves, m \in SaveErrorTexts : SaveReject(s, m)
    \/ \E id \in TodoIds : StrictTodoRemount(id)
    \/ TodoUnmount
    \/ \E f \in todoFetches, todo \in ServerTodos : TodoDetailResolve(f, todo)
    \/ \E f \in todoFetches, page \in ServerPages : TodoPageResolve(f, page)
    \/ \E f \in todoFetches, status \in FetchErrors : TodoFetchReject(f, status)
    \/ \E f \in todoFetches : TodoFetchCanceled(f)
    \/ \E r \in 1..MaxRows, st \in Statuses : SelectStatus(r, st)
    \/ \E c \in statusCalls : StatusResolve(c)
    \/ \E c \in statusCalls : StatusReject(c)

StrictSpec == (StrictPageInit \/ StrictTodoInit) /\ [][StrictNext]_vars

-----------------------------------------------------------------------------
(* PageView: the handlers as functions.  PageView registers its handlers   *)
(* with the PageActionProvider (registerActions) and passes them to the    *)
(* DataTable; here they are called with any argument in any state of one   *)
(* mounted view, whatever the rendered controls let through.  The buffer   *)
(* is edited between gateway exchanges; edits racing a save in flight are  *)
(* explored through the rendered controls (Spec).                          *)

\* gateway calls in flight when a direct call starts a save
MaxInFlight == 1

\* arguments of direct calls: indices inside and outside the buffer, ids of
\* rows present, absent and unsaved
RowIndices == -1..MaxRows
ColIndices == 0..2
RowIds == {NullId, 1, 5, 9}

\* number of cells of the buffer d that hold typed text, rows of any length
TypedCells(d) ==
    IF d = NullData THEN 0
    ELSE Cardinality({<<i, j>> \in (1..MaxRows) \X (1..(Max(ColIndices) + 1)) :
                         /\ i <= Len(d.rows) /\ j <= Len(d.rows[i].cells)
                         /\ d.rows[i].cells[j] \in EditValues})

CallToggleEdit ==
    /\ route = "page" /\ mounted
    /\ (isEditing /\ editData # NullData) =>
           Cardinality(saves) + Cardinality(fetches) < MaxInFlight
    /\ handleToggleEdit
    /\ last' = [op |-> "toggleEdit",
                notify |-> IF ~isEditing /\ ~canEdit THEN "warning" ELSE "none"]

CallSaveChanges ==
    /\ route = "page" /\ mounted
    /\ (isEditing /\ editData # NullData) =>
           Cardinality(saves) + Cardinality(fetches) < MaxInFlight
    /\ handleSaveChanges
    /\ last' = [op |-> "saveChanges"]

CallCancelEdit ==
    /\ route = "page" /\ mounted
    /\ handleCancelEdit
    /\ last' = [op |-> "cancelEdit"]

CallAddRow ==
    /\ route = "page" /\ mounted
    /\ saves = {} /\ fetches = {}
    /\ editData # NullData => Len(editData.rows) < MaxRows
    /\ handleAddRow
    /\ last' = [op |-> "handleAddRow"]

CallCellChange(rowIndex, colIndex, value) ==
    /\ route = "page" /\ mounted
    /\ saves = {} /\ fetches = {}
    /\ TypedCells(editData) < MaxTyped
    /\ handleCellChange(rowIndex, colIndex, value)
    /\ last' = [op |-> "handleCellChange", rowIndex |-> rowIndex, colIndex |-> colIndex,
                value |-> value]

CallDeleteRow(rowIdToDelete) ==
    /\ route = "page" /\ mounted
    /\ saves = {} /\ fetches = {}
    /\ handleDeleteRow(rowIdToDelete)
    /\ last' = [op |-> "handleDeleteRow", id |-> rowIdToDelete]

HandlerNext ==
    \/ \E f \in fetches, page \in ServerPages : FetchResolve(f, page)
    \/ \E f \in fetches, status \in FetchErrors : FetchReject(f, status)
    \/ CallToggleEdit
    \/ CallSaveChanges
    \/ CallCancelEdit
    \/ CallAddRow
    \/ \E r \in RowIndices, c \in ColIndices, v \in EditValues : CallCellChange(r, c, v)
    \/ \E id \in RowIds : CallDeleteRow(id)
    \/ \E s \in saves : SaveResolve(s)
    \/ \E s \in saves, m \in SaveErrorTexts : SaveReject(s, m)

HandlerSpec == PageInit /\ [][HandlerNext]_vars

\* HandlerSpec lets a handler start a request only while fewer than
\* MaxInFlight are in flight.  ReentrySpec adds the calls it leaves out:
\* saveChanges and toggleEdit invoked while a save of the view is awaited,
\* as long as no more than MaxInFlight saves are in flight already.
SaveAwaited ==
    /\ route = "page" /\ mounted
    /\ isLoadingSave /\ isEditing /\ editData # NullData
    /\ saves # {} /\ Cardinality(saves) <= MaxInFlight /\ fetches = {}

RepeatSaveChanges ==
    /\ SaveAwaited
    /\ handleSaveChanges
    /\ last' = [op |-> "saveChanges"]

RepeatToggleEdit ==
    /\ SaveAwaited
    /\ handleToggleEdit
    /\ last' = [op |-> "toggleEdit", notify |-> "none"]

ReentryNext ==
    \/ HandlerNext
    \/ RepeatSaveChanges
    \/ RepeatToggleEdit

ReentrySpec == PageInit /\ [][ReentryNext]_vars

-----------------------------------------------------------------------------
(* services/api.js: the request interceptor of the gateway.  The browser    *)
(* keeps the cookies; the interceptor reads them for every request.         *)

\* cookies the browser may hold at once
MaxCookies == 2

\* the router matches no detail route: no PageView, no TodoView
NoDetailRoute ==
    /\ route = "none"
    /\ isEditing = FALSE /\ canEdit = FALSE /\ isLoadingSave = FALSE
    /\ mounted = FALSE
    /\ pageSlug = Null
    /\ pageData = NullData /\ editData = NullData
    /\ loading = FALSE
    /\ pageError = Null /\ editError = Null
    /\ fetches = {} /\ saves = {}
    /\ todoId = Null /\ todoDisplayData = NullData
    /\ todoLoading = FALSE /\ todoError = Null
    /\ todoFetches = {} /\ statusCalls = {}
    /\ statusChanges = 0 /\ acceptedStatus = <<>>
    /\ lastFetched = NullData

\* a cookie as the browser stores it: name and percent-encoded value
Cookie(n, raw) == [name |-> n, raw |-> raw]

\* cookies the backend's responses may set
BrowserCookies ==
    { Cookie("csrftoken", "tok"), Cookie("csrftoken", "t%41"),
      Cookie("csrftoken2", "zz"), Cookie("sessionid", "s1") }

\* decodeURIComponent on the values above: %41 is "A"
decodeURIComponent(raw) == IF raw = "t%41" THEN "tA" ELSE raw

\* document.cookie.split(';'): the browser joins the cookies with "; ", so
\* every piece but the first starts with a space (pad)
SplitCookies(jar) ==
    [i \in DOMAIN jar |-> [pad |-> i > 1, name |-> jar[i].name, raw |-> jar[i].raw]]

\* String.prototype.trim on a piece
Trim(piece) == [piece EXCEPT !.pad = FALSE]

\* cookie.substring(0, name.length + 1) === name + '='
BeginsWithName(piece, name) == ~piece.pad /\ piece.name = name

\* the loop of getCookie: the first piece that begins with name= wins
RECURSIVE ScanCookies(_, _)
ScanCookies(cookies, name) ==
    IF cookies = <<>> THEN Null
    ELSE LET cookie == Trim(Head(cookies)) IN
         IF BeginsWithName(cookie, name)
         THEN decodeURIComponent(cookie.raw)
         ELSE ScanCookies(Tail(cookies), name)

getCookie(name) ==
    IF documentCookie # <<>> THEN ScanCookies(SplitCookies(documentCookie), name)
    ELSE Null

\* methods as axios hands them to the interceptor (lower case)
Methods == {"get", "head", "options", "post", "put", "patch", "delete"}

\* variant: the method is compared as it arrives
toUpperCaseSkipped(m) == m

\* String.prototype.toUpperCase on a method
toUpperCase(m) ==
    CASE m = "get" -> "GET"
      [] m = "head" -> "HEAD"
      [] m = "options" -> "OPTIONS"
      [] m = "trace" -> "TRACE"
      [] m = "post" -> "POST"
      [] m = "put" -> "PUT"
      [] m = "patch" -> "PATCH"
      [] m = "delete" -> "DELETE"
      [] OTHER -> m

SafeMethods == {"GET", "HEAD", "OPTIONS", "TRACE"}

\* headers of the axios instance; a header set is a set of <<name, value>>
DefaultHeaders == {<<"Content-Type", "application/json">>}

\* config.headers[h] = v
SetHeader(headers, h, v) == {p \in headers : p[1] # h} \cup {<<h, v>>}

\* the request interceptor: the config it returns, and whether it warned
Interceptor(config) ==
    LET method    == toUpperCase(config.method)
        csrfToken == getCookie("csrftoken")
    IN  IF method \notin SafeMethods
        THEN IF csrfToken # Null /\ csrfToken # ""
             THEN [config |-> [config EXCEPT !.headers = SetHeader(@, "X-CSRFToken", csrfToken)],
                   warned |-> FALSE]
             ELSE [config |-> config, warned |-> TRUE]
        ELSE [config |-> config, warned |-> FALSE]

GatewayInit ==
    /\ NoDetailRoute
    /\ documentCookie = <<>>
    /\ notifications = <<>> /\ created = 0
    /\ SignedIn
    /\ last = [op |-> "load"]

\* everything the gateway leaves alone
GatewayUntouched ==
    <<route, ctxVars, viewVars, todoVars, fetches, saves, notifications, created,
      authVars, lastFetched>>

\* a response sets a cookie (withCredentials): the browser appends it
StoreCookie(c) ==
    /\ route = "none"
    /\ Len(documentCookie) < MaxCookies
    /\ documentCookie' = Append(documentCookie, c)
    /\ last' = [op |-> "setCookie"]
    /\ UNCHANGED GatewayUntouched

\* the i-th cookie expires or is deleted
ExpireCookie(i) ==
    /\ route = "none"
    /\ i \in DOMAIN documentCookie
    /\ documentCookie' = [j \in 1..(Len(documentCookie) - 1) |->
                            IF j < i THEN documentCookie[j] ELSE documentCookie[j + 1]]
    /\ last' = [op |-> "expireCookie"]
    /\ UNCHANGED GatewayUntouched

\* a gateway function is called: the request passes the interceptor and is
\* sent with the config it returned
SendRequest(m) ==
    /\ route = "none"
    /\ LET out == Interceptor([method |-> m, headers |-> DefaultHeaders])
       IN  last' = [op |-> "request", method |-> m, sent |-> out.config,
                    warned |-> out.warned]
    /\ UNCHANGED <<documentCookie, GatewayUntouched>>

GatewayNext ==
    \/ \E c \in BrowserCookies : StoreCookie(c)
    \/ \E i \in 1..MaxCookies : ExpireCookie(i)
    \/ \E m \in Methods : SendRequest(m)

GatewaySpec == GatewayInit /\ [][GatewayNext]_vars

-----------------------------------------------------------------------------
(* NotificationProvider and NotificationDisplay.  Time is counted in        *)
(* milliseconds and advances in steps of Tick; a timer that has run out      *)
(* fires before time advances further.                                       *)

\* notifications created in one run
MaxNotifs == 2

\* the step of the clock, in ms
Tick == 1000

\* addNotification's default duration, and the one TodoView passes with
\* "Status updated!", in ms
DefaultDuration == 5000
StatusDuration == 2000

\* the (type, duration) arguments the views call addNotification with
NotifyCalls ==
    { [type |-> "success", duration |-> StatusDuration],
      [type |-> "error", duration |-> DefaultDuration] }

\* notification.duration || 5000
TimerDelay(n) == IF n.duration = 0 THEN DefaultDuration ELSE n.duration

\* NotificationDisplay renders again: each item gets a new onDismiss closure,
\* so each item's timer effect is cleaned up (clearTimeout) and run again
\* (setTimeout with the full delay)
RenderItems(ns) == [i \in DOMAIN ns |-> [ns[i] EXCEPT !.timer = TimerDelay(ns[i])]]

\* prevNotifications.filter(notification => notification.id !== idToRemove)
RECURSIVE FilterNotifications(_, _)
FilterNotifications(ns, idToRemove) ==
    IF ns = <<>> THEN <<>>
    ELSE IF Head(ns).id # idToRemove
         THEN <<Head(ns)>> \o FilterNotifications(Tail(ns), idToRemove)
         ELSE FilterNotifications(Tail(ns), idToRemove)

NotifInit ==
    /\ NoDetailRoute
    /\ documentCookie = <<>>
    /\ notifications = <<>> /\ created = 0
    /\ SignedIn
    /\ last = [op |-> "start"]

\* everything the notification channel leaves alone
NotifUntouched ==
    <<route, ctxVars, viewVars, todoVars, fetches, saves, documentCookie, authVars,
      lastFetched>>

\* addNotification(message, type, duration): the new notification goes to
\* the front, and the display renders the new list.  History: age, the time
\* since the notification was created.
addNotification(type, duration) ==
    /\ route = "none"
    /\ created < MaxNotifs
    /\ created' = created + 1
    /\ notifications' =
          RenderItems(<<[id |-> created + 1, type |-> type, duration |-> duration,
                         age |-> 0, timer |-> 0]>> \o notifications)
    /\ last' = [op |-> "add", id |-> created + 1]
    /\ UNCHANGED NotifUntouched

\* removeNotification(idToRemove), and the display renders the new list
removeNotification(idToRemove) ==
    /\ notifications' = RenderItems(FilterNotifications(notifications, idToRemove))
    /\ UNCHANGED <<created, NotifUntouched>>

\* the dismiss button of the item of notification i
ClickDismiss(i) ==
    /\ route = "none"
    /\ i \in DOMAIN notifications
    /\ removeNotification(notifications[i].id)
    /\ last' = [op |-> "dismiss", id |-> notifications[i].id]

\* the timeout of the item of notification i runs out: onDismiss()
TimerFires(i) ==
    /\ route = "none"
    /\ i \in DOMAIN notifications
    /\ notifications[i].timer = 0
    /\ removeNotification(notifications[i].id)
    /\ last' = [op |-> "expire", id |-> notifications[i].id]

\* Tick ms pass with no timer due
TimePasses ==
    /\ route = "none"
    /\ notifications # <<>>
    /\ \A i \in DOMAIN notifications : notifications[i].timer >= Tick
    /\ notifications' = [i \in DOMAIN notifications |->
                            [notifications[i] EXCEPT !.age = @ + Tick, !.timer = @ - Tick]]
    /\ last' = [op |-> "tick"]
    /\ UNCHANGED <<created, NotifUntouched>>

NotifNext ==
    \/ \E c \in NotifyCalls : addNotification(c.type, c.duration)
    \/ \E i \in 1..MaxNotifs : ClickDismiss(i)
    \/ \E i \in 1..MaxNotifs : TimerFires(i)
    \/ TimePasses

NotifSpec == NotifInit /\ [][NotifNext]_vars

-----------------------------------------------------------------------------
(* contexts/AuthContext.js: the session state of the AuthProvider, with the *)
(* forms and the route guard that read it.  The provider is mounted once    *)
(* per page load and checks the session then; login, register and logout    *)
(* are invoked by LoginForm, RegisterForm and the Topbar.  One step is the  *)
(* start of an auth function up to its await, or its continuation.          *)

\* auth calls that may be in flight at once
MaxAuthCalls == 2

\* the locations of the router: the two public routes, and the protected
\* routes under MainLayout
Locations == {"/login", "/register", "/pages"}

\* bodies the backend may answer GET /auth/status/ with
StatusAnswers ==
    {[isAuthenticated |-> FALSE, user |-> Null]} \cup
    {[isAuthenticated |-> TRUE, user |-> u] : u \in Users}

\* a call of the gateway awaited by an auth function.  History: n tells two
\* calls of one kind apart, and `before` is set on an auth-status check when
\* a login is accepted while the check is still in flight.
AuthCall(kind) ==
    [kind |-> kind, before |-> FALSE,
     n |-> CHOOSE k \in 1..(Cardinality(authCalls) + 1) :
              /\ \A c \in authCalls : c.n # k
              /\ \A j \in 1..(k - 1) : \E c \in authCalls : c.n = j]

\* PrivateRoute: on a protected route, once the session is known to be
\* unauthenticated, <Navigate to="/login" replace /> is rendered
PrivateRoute(loc, authed, busy) ==
    IF loc = "/pages" /\ ~busy /\ ~authed THEN "/login" ELSE loc

\* LoginPage renders LoginForm unless isLoading
LoginFormShown == location = "/login" /\ ~isLoading
\* RegisterPage renders RegisterForm; its submit button is disabled while
\* the form's own call is awaited
RegisterFormShown ==
    location = "/register" /\ \A c \in authCalls : c.kind # "register"
\* the Topbar under PrivateRoute shows Logout when there is a user
LogoutShown == location = "/pages" /\ ~isLoading /\ isAuthenticated /\ user # Null

\* everything the session state leaves alone
AuthUntouched ==
    <<route, ctxVars, viewVars, todoVars, fetches, saves, documentCookie,
      notifications, created, lastFetched>>

\* the provider is mounted by a page load at any location: useState
\* defaults, and the effect's checkAuthStatus is awaiting its answer
AuthInit ==
    /\ NoDetailRoute
    /\ documentCookie = <<>>
    /\ notifications = <<>> /\ created = 0
    /\ user = Null /\ isAuthenticated = FALSE /\ isLoading = TRUE
    /\ authCalls = {[kind |-> "check", before |-> FALSE, n |-> 1]}
    /\ location \in Locations
    /\ last = [op |-> "load"]

\* checkAuthStatus after its await: the backend answered
CheckAuthResolve(c, data) ==
    /\ c \in authCalls /\ c.kind = "check"
    /\ authCalls' = authCalls \ {c}
    /\ IF data.isAuthenticated
       THEN user' = data.user /\ isAuthenticated' = TRUE
       ELSE user' = Null /\ isAuthenticated' = FALSE
    /\ isLoading' = FALSE
    /\ location' = PrivateRoute(location, isAuthenticated', isLoading')
    /\ last' = [op |-> "checkAnswered", before |-> c.before,
                reports |-> data.isAuthenticated]
    /\ UNCHANGED AuthUntouched

\* checkAuthStatus after its await: the call failed (catch, finally)
CheckAuthReject(c) ==
    /\ c \in authCalls /\ c.kind = "check"
    /\ authCalls' = authCalls \ {c}
    /\ user' = Null /\ isAuthenticated' = FALSE
    /\ isLoading' = FALSE
    /\ location' = PrivateRoute(location, isAuthenticated', isLoading')
    /\ last' = [op |-> "checkFailed", before |-> c.before]
    /\ UNCHANGED AuthUntouched

\* LoginForm is submitted: login(email, password) up to its await
SubmitLogin ==
    /\ LoginFormShown
    /\ Cardinality(authCalls) < MaxAuthCalls
    /\ isLoading' = TRUE
    /\ authCalls' = authCalls \cup {AuthCall("login")}
    /\ last' = [op |-> "login"]
    /\ UNCHANGED <<user, isAuthenticated, location, AuthUntouched>>

\* login after its await: the backend accepted the credentials of `u`;
\* LoginForm then navigates to the protected location
LoginResolve(c, u) ==
    /\ c \in authCalls /\ c.kind = "login"
    /\ authCalls' = {IF d.kind = "check" THEN [d EXCEPT !.before = TRUE] ELSE d :
                        d \in authCalls \ {c}}
    /\ user' = u /\ isAuthenticated' = TRUE
    /\ isLoading' = FALSE
    /\ location' = "/pages"
    /\ last' = [op |-> "loginAccepted", user |-> u]
    /\ UNCHANGED AuthUntouched

\* login after its await: the call failed (catch)
LoginReject(c) ==
    /\ c \in authCalls /\ c.kind = "login"
    /\ authCalls' = authCalls \ {c}
    /\ user' = Null /\ isAuthenticated' = FALSE
    /\ isLoading' = FALSE
    /\ location' = PrivateRoute(location, isAuthenticated', isLoading')
    /\ last' = [op |-> "loginRejected", was |-> isAuthenticated]
    /\ UNCHANGED AuthUntouched

\* RegisterForm is submitted: register(...) up to its await
SubmitRegister ==
    /\ RegisterFormShown
    /\ Cardinality(authCalls) < MaxAuthCalls
    /\ isLoading' = TRUE
    /\ authCalls' = authCalls \cup {AuthCall("register")}
    /\ last' = [op |-> "register"]
    /\ UNCHANGED <<user, isAuthenticated, location, AuthUntouched>>

\* register after its await: the account was created; RegisterForm then
\* notifies and navigates to /login
RegisterResolve(c) ==
    /\ c \in authCalls /\ c.kind = "register"
    /\ authCalls' = authCalls \ {c}
    /\ isLoading' = FALSE
    /\ location' = "/login"
    /\ last' = [op |-> "registerAccepted", notify |-> "success"]
    /\ UNCHANGED <<user, isAuthenticated, AuthUntouched>>

\* register after its await: the call failed (catch)
RegisterReject(c) ==
    /\ c \in authCalls /\ c.kind = "register"
    /\ authCalls' = authCalls \ {c}
    /\ isLoading' = FALSE
    /\ location' = PrivateRoute(location, isAuthenticated, isLoading')
    /\ last' = [op |-> "registerRejected", notify |-> "none"]
    /\ UNCHANGED <<user, isAuthenticated, AuthUntouched>>

\* Logout is clicked in the Topbar: logout() up to its await
ClickLogout ==
    /\ LogoutShown
    /\ Cardinality(authCalls) < MaxAuthCalls
    /\ isLoading' = TRUE
    /\ authCalls' = authCalls \cup {AuthCall("logout")}
    /\ last' = [op |-> "logout"]
    /\ UNCHANGED <<user, isAuthenticated, location, AuthUntouched>>

\* logout after its await: the backend ended the session (finally)
LogoutResolve(c) ==
    /\ c \in authCalls /\ c.kind = "logout"
    /\ authCalls' = authCalls \ {c}
    /\ user' = Null /\ isAuthenticated' = FALSE
    /\ isLoading' = FALSE
    /\ location' = PrivateRoute(location, isAuthenticated', isLoading')
    /\ last' = [op |-> "logoutAccepted", was |-> isAuthenticated]
    /\ UNCHANGED AuthUntouched

\* variant: the cleanup of logout runs after a successful call only
LogoutRejectKeepsSession(c) ==
    /\ c \in authCalls /\ c.kind = "logout"
    /\ authCalls' = authCalls \ {c}
    /\ isLoading' = FALSE
    /\ location' = PrivateRoute(location, isAuthenticated, isLoading')
    /\ last' = [op |-> "logoutRejected", was |-> isAuthenticated]
    /\ UNCHANGED <<user, isAuthenticated, AuthUntouched>>

\* logout after its await: the call failed (catch, finally)
LogoutReject(c) ==
    /\ c \in authCalls /\ c.kind = "logout"
    /\ authCalls' = authCalls \ {c}
    /\ user' = Null /\ isAuthenticated' = FALSE
    /\ isLoading' = FALSE
    /\ location' = PrivateRoute(location, isAuthenticated', isLoading')
    /\ last' = [op |-> "logoutRejected", was |-> isAuthenticated]
    /\ UNCHANGED AuthUntouched

\* the link under a form is followed: LoginForm links to /register,
\* RegisterForm and RegisterPage link to /login
FollowLink ==
    /\ \/ LoginFormShown /\ location' = "/register"
       \/ location = "/register" /\ location' = "/login"
    /\ last' = [op |-> "link"]
    /\ UNCHANGED <<user, isAuthenticated, isLoading, authCalls, AuthUntouched>>

AuthNext ==
    \/ \E c \in authCalls, data \in StatusAnswers : CheckAuthResolve(c, data)
    \/ \E c \in authCalls : CheckAuthReject(c)
    \/ SubmitLogin
    \/ \E c \in authCalls, u \in Users : LoginResolve(c, u)
    \/ \E c \in authCalls : LoginReject(c)
    \/ SubmitRegister
    \/ \E c \in authCalls : RegisterResolve(c)
    \/ \E c \in authCalls : RegisterReject(c)
    \/ ClickLogout
    \/ \E c \in authCalls : LogoutResolve(c)
    \/ \E c \in authCalls : LogoutReject(c)
    \/ FollowLink

AuthSpec == AuthInit /\ [][AuthNext]_vars

-----------------------------------------------------------------------------
(* Properties *)

EditOps == {"cellEdit", "addRow", "deleteRow"}

\* C1: in the page view the canonical page (pageData) is always the value
\* the last completed fetch delivered; cell edits, added rows and deleted
\* rows made while editing leave it as it is.
C1_CanonicalIsLastFetched == pageData = lastFetched

\* an edit was made and the buffer differs from the untouched canonical page
C1_Witness ==
    /\ last.op \in EditOps
    /\ pageData # NullData /\ editData # pageData

\* C2: right after cancel the page view is out of edit mode, and the edit
\* buffer and the displayed data are both equal to the last fetched page.
C2_CancelRestoresFetched ==
    last.op = "cancel" =>
        /\ ~isEditing
        /\ editData = lastFetched
        /\ DisplayData = lastFetched

\* cancel was clicked on a buffer that had been edited
C2_Witness ==
    /\ last.op = "cancel" /\ last.edited
    /\ editData = lastFetched /\ lastFetched # NullData

\* the rows of a buffer without their order values
Unordered(rows) == [i \in DOMAIN rows |-> [id |-> rows[i].id, cells |-> rows[i].cells]]

\* C3: right after deleteRow(id) no row of the buffer has that id, the rows
\* left are the other rows of the buffer before, in the order they had, and
\* their order values are 1..N by position.
C3_DeleteRowRenumbers ==
    last.op = "deleteRow" =>
        /\ \A i \in DOMAIN editData.rows : editData.rows[i].id # last.id
        /\ Unordered(editData.rows) =
               Unordered(SelectSeq(last.buf.rows, LAMBDA r : r.id # last.id))
        /\ \A i \in DOMAIN editData.rows : editData.rows[i].order = i

\* a row was deleted from a buffer whose remaining rows had other order
\* values than their new positions
C3_Witness ==
    /\ last.op = "deleteRow"
    /\ Len(editData.rows) >= 2
    /\ Len(editData.rows) < Len(last.buf.rows)
    /\ \E i \in DOMAIN editData.rows, j \in DOMAIN last.buf.rows :
          /\ last.buf.rows[j].cells = editData.rows[i].cells
          /\ last.buf.rows[j].id = editData.rows[i].id
          /\ last.buf.rows[j].order > Len(last.buf.rows)

\* C4: when a save is rejected and nothing happened between the save and its
\* rejection, the edit buffer equals the buffer the save was invoked on.
C4_RejectedSaveKeepsBuffer ==
    (last.op = "saveRejected" /\ last.quiet) => editData = last.buf

\* a save of an edited buffer was rejected right after it was invoked
C4_Witness ==
    /\ last.op = "saveRejected" /\ last.quiet
    /\ editData # pageData /\ editData = last.buf

\* C5: once the gateway has rejected a save, the page view shown is in edit
\* mode, the save-in-progress flag is cleared, editError is set and an error
\* notification was emitted, whatever happened while the save was in flight.
C5_RejectedSaveHandled ==
    (last.op = "saveRejected" /\ mounted) =>
        /\ isEditing
        /\ ~isLoadingSave
        /\ editError # Null
        /\ last.notify = "error"

\* C6: when a status update is rejected while its view is mounted, the
\* combined view equals the view as it was when the update was invoked, and
\* an error notification is emitted.
C6_RejectedStatusRestored ==
    (last.op = "statusRejected" /\ last.handled) =>
        /\ todoDisplayData = last.shown
        /\ last.notify = "error"

\* a rejected update was taken back while another update had changed the
\* view since
C6_Witness ==
    /\ last.op = "statusRejected" /\ last.handled /\ last.reverted
    /\ todoDisplayData = last.shown

\* the status the todo's status list records for the row id, if any
Recorded(statuses, id) == {statuses[k].status : k \in {k \in DOMAIN statuses : statuses[k].row_id = id}}

\* C7: right after a todo load the combined rows are the source page's rows,
\* as many and in the same order, each with the status recorded for its id
\* or NOT_STARTED when none is recorded.
C7_CombinedRows ==
    last.op = "todoLoaded" =>
        LET rows == todoDisplayData.rows
            src  == last.page.rows
        IN  /\ Len(rows) = Len(src)
            /\ \A i \in DOMAIN src :
                  /\ rows[i].id = src[i].id
                  /\ rows[i].order = src[i].order
                  /\ rows[i].cells = src[i].cells
                  /\ IF Recorded(last.todo.statuses, src[i].id) = {}
                     THEN rows[i].status = "NOT_STARTED"
                     ELSE rows[i].status \in Recorded(last.todo.statuses, src[i].id)

\* a load where one row has a recorded status, another has none, and the
\* status list has an entry for a row the page does not have
C7_Witness ==
    /\ last.op = "todoLoaded"
    /\ Len(todoDisplayData.rows) = 2
    /\ \E i \in DOMAIN last.page.rows : Recorded(last.todo.statuses, last.page.rows[i].id) = {}
    /\ \E i \in DOMAIN last.page.rows : Recorded(last.todo.statuses, last.page.rows[i].id) # {}
    /\ \E k \in DOMAIN last.todo.statuses :
          \A i \in DOMAIN last.page.rows : last.page.rows[i].id # last.todo.statuses[k].row_id

\* C8: a fetch result that is applied to the page view or the todo view is
\* the result of the newest fetch, issued for the identifier the view shows.
C8_OnlyNewestFetchApplied ==
    /\ last.op = "fetchApplied" => (last.newest /\ last.slug = pageSlug)
    /\ last.op = "todoLoaded" => (last.newest /\ last.todoId = todoId)

\* the response to a fetch for another page than the one shown arrived and
\* was dropped
C8_Witness ==
    /\ last.op = "fetchDropped" /\ mounted
    /\ last.slug # pageSlug
    /\ pageData = NullData

\* C9: the payload of a save in flight is the buffer the save was invoked
\* on, and an edit made while the save was in flight is still in the buffer
\* when the save, with its re-fetch, has completed.
C9_InFlightEditsKept ==
    /\ \A s \in saves : s.live => s.payload = SavePayload(s.buf)
    /\ last.op = "fetchApplied" => ~last.lost

\* C10 as claimed: the edit buffer is non-null exactly in edit mode.
C10_BufferIffEditing ==
    (route = "page" /\ mounted) => ((editData # NullData) <=> isEditing)

\* C10 amended: the edit buffer is non-null exactly when the canonical page
\* is, that is once a fetch has completed in the view, in or out of edit mode.
C10_BufferIffFetched == (editData # NullData) <=> (pageData # NullData)

\* out of edit mode, after a cancel, with a buffer
C10_Witness ==
    /\ route = "page" /\ mounted /\ ~isEditing
    /\ last.op = "cancel"
    /\ editData # NullData


\* the order values of the rows of d
Orders(d) == {d.rows[i].order : i \in DOMAIN d.rows}

\* C12: after each addRow and each deleteRow the order values of the rows of
\* the edit buffer are unique and are exactly 1..N, N the number of rows,
\* whichever fetched page the edit session started from.
C12_OrdersDense ==
    last.op \in {"addRow", "deleteRow"} =>
        /\ Orders(editData) = 1..Len(editData.rows)
        /\ \A i, j \in DOMAIN editData.rows :
               editData.rows[i].order = editData.rows[j].order => i = j

\* C16: when the gateway has accepted a save of the page view on screen, a
\* success notification is emitted, edit mode is off and the re-fetch of the
\* page is in flight, issued after the save resolved; when that re-fetch has
\* resolved, the canonical page and the displayed data are the page the
\* backend returned, not the buffer that was saved.
C16_AcceptedSaveApplied ==
    (route = "page" /\ mounted) =>
        /\ last.op = "saveAccepted" =>
              /\ last.notify = "success"
              /\ ~isEditing
              /\ \E f \in fetches : f.kind = "refetch" /\ f.newest /\ f.slug = pageSlug
        /\ (last.op = "fetchApplied" /\ last.kind = "refetch") =>
              /\ pageData = lastFetched
              /\ DisplayData = lastFetched

-----------------------------------------------------------------------------
(* Properties of the handlers as functions (HandlerSpec) *)

\* every row of the buffer d has as many cells as d has columns
Aligned(d) == \A i \in DOMAIN d.rows : Len(d.rows[i].cells) = Len(d.columns)

\* C11: the fetched pages have one cell per column in every row, and after
\* any sequence of enterEdit, cellEdit with arbitrary indices, addRow and
\* deleteRow every row of the edit buffer still has exactly as many cells as
\* there are columns.
C11_RowsAligned ==
    /\ \A page \in ServerPages : Aligned(page)
    /\ editData # NullData => Aligned(editData)

\* C13: toggleEdit called while not editing.  Without edit permission edit
\* mode stays off, the edit buffer and the canonical page are unchanged, no
\* gateway call is made and a warning notification is emitted; with
\* permission the edit buffer becomes a deep copy of the canonical page and
\* edit mode turns on.
C13_EnterEditGated ==
    [][(last'.op = "toggleEdit" /\ ~isEditing) =>
          IF ~canEdit
          THEN /\ ~isEditing'
               /\ editData' = editData /\ pageData' = pageData
               /\ saves' = saves /\ fetches' = fetches
               /\ last'.notify = "warning"
          ELSE /\ isEditing'
               /\ editData' = DeepCopy(pageData) /\ pageData' = pageData
               /\ last'.notify = "none"]_vars

\* enterEdit was refused on a loaded page whose permission a 403 withdrew
C13_Witness ==
    /\ last.op = "toggleEdit" /\ last.notify = "warning"
    /\ ~isEditing /\ ~canEdit
    /\ pageData # NullData /\ editData = pageData


\* a and b are deep-equal, compared as the JSON they serialise to
SameJson(a, b) == DeepCopy(a) = DeepCopy(b)

\* the 0-based indices r, c name a cell of the buffer d
InBounds(d, r, c) ==
    /\ r >= 0 /\ r < Len(d.rows)
    /\ c >= 0 /\ c < Len(d.columns)

\* C14: cellEdit(rowIndex, colIndex, value) while editing replaces exactly
\* the cell at (rowIndex, colIndex) and leaves every other cell, row and
\* column as it was; with rowIndex or colIndex out of bounds the buffer after
\* the call is deep-equal to the buffer before it; outside edit mode the call
\* changes nothing.
C14_CellEditExact ==
    [][last'.op = "handleCellChange" =>
          LET r == last'.rowIndex
              c == last'.colIndex
          IN  /\ pageData' = pageData
              /\ IF ~isEditing \/ editData = NullData
                 THEN editData' = editData
                 ELSE IF InBounds(editData, r, c)
                      THEN SameJson(editData',
                                    [editData EXCEPT !.rows[r + 1].cells[c + 1] = last'.value])
                      ELSE SameJson(editData', editData)]_vars

C17_NoCancelWhileSaving ==
    [][(last'.op = "cancelEdit" /\ isLoadingSave) =>
          /\ isEditing' = isEditing
          /\ editData' = editData]_vars

\* C18: toggleEdit called while editing has exactly the effect of save (the
\* same payload in the same gateway call, the same resulting state); called
\* while not editing it has the effect of enterEdit: refused without
\* permission, otherwise edit mode on a copy of the canonical page, and no
\* gateway call either way.
C18_ToggleIsEnterOrSave ==
    [][last'.op = "toggleEdit" =>
          IF isEditing
          THEN handleSaveChanges
          ELSE /\ isEditing' = canEdit
               /\ editData' = IF canEdit THEN DeepCopy(pageData) ELSE editData
               /\ UNCHANGED <<pageData, canEdit, isLoadingSave, fetches, saves>>]_vars

\* toggleEdit called while editing an edited buffer sent that buffer
C18_Witness ==
    /\ last.op = "toggleEdit" /\ isEditing /\ isLoadingSave
    /\ editData # NullData /\ editData # pageData
    /\ \E s \in saves : s.live /\ s.slug = pageSlug /\ s.payload = SavePayload(editData)

-----------------------------------------------------------------------------
(* Properties of the gateway (GatewaySpec) *)

\* the values of the X-CSRFToken headers of a header set
CsrfHeaders(headers) == {p[2] : p \in {q \in headers : q[1] = "X-CSRFToken"}}

\* the positions of the csrftoken cookies the browser holds
CsrfCookies == {i \in DOMAIN documentCookie : documentCookie[i].name = "csrftoken"}

\* C19: every request is sent.  A POST, PUT, PATCH or DELETE sent while the
\* csrftoken cookie is present carries the X-CSRFToken header with the
\* cookie's (decoded) value; a GET, HEAD or OPTIONS gets no such header; with
\* the cookie absent the request is sent without the header.
C19_CsrfHeader ==
    last.op = "request" =>
        /\ last.sent.method = last.method
        /\ DefaultHeaders \subseteq last.sent.headers
        /\ IF last.method \in {"post", "put", "patch", "delete"} /\ CsrfCookies # {}
           THEN \E i \in CsrfCookies :
                   /\ \A j \in CsrfCookies : i <= j
                   /\ CsrfHeaders(last.sent.headers) =
                          {decodeURIComponent(documentCookie[i].raw)}
           ELSE CsrfHeaders(last.sent.headers) = {}

\* a DELETE was sent with the token of a csrftoken cookie that is not the
\* first cookie of the browser, its value percent-encoded
C19_Witness ==
    /\ last.op = "request" /\ last.method = "delete"
    /\ Len(documentCookie) = 2
    /\ documentCookie[1].name = "csrftoken2"
    /\ documentCookie[2] = Cookie("csrftoken", "t%41")
    /\ <<"X-CSRFToken", "tA">> \in last.sent.headers

-----------------------------------------------------------------------------
(* Properties of the notification channel (NotifSpec) *)

\* C20: a notification that is not dismissed is removed once its
\* time-to-live has elapsed since it was created, however many other
\* notifications are added or removed in the meantime: no notification on
\* screen is older than its time-to-live.
C20_RemovedWithinTtl ==
    \A i \in DOMAIN notifications : notifications[i].age <= TimerDelay(notifications[i])

-----------------------------------------------------------------------------
(* Properties of the views, continued (Spec) *)

\* C21: when a read (page-data fetch, todo load) of the view on screen has
\* failed with an error other than cancellation, the view shows the error
\* panel in place of the page or todo data, also when the fetch was issued
\* after data had been loaded; when a save the view handled has failed, the
\* editable view stays shown with the inline error.
C21_ErrorsShown ==
    /\ last.op = "fetchFailed" => ErrorPanelShown /\ ~TableRendered
    /\ last.op = "todoFetchFailed" => TodoErrorPanelShown /\ ~TodoTableRendered
    /\ (last.op = "saveRejected" /\ last.handled /\ TableRendered) =>
          EditBarRendered /\ editError # Null

\* C22: changeStatus(rowId, newStatus) on a loaded todo view makes the row
\* with that id show newStatus while the gateway call is still in flight and
\* changes no other row's status and no cell; when the call succeeds the
\* view is left as it is, no fetch is issued and a success notification is
\* emitted.
C22_OptimisticStatus ==
    [][/\ last'.op = "statusChange" =>
            /\ todoDisplayData'.todoInfo = todoDisplayData.todoInfo
            /\ todoDisplayData'.sourcePageInfo = todoDisplayData.sourcePageInfo
            /\ Len(todoDisplayData'.rows) = Len(todoDisplayData.rows)
            /\ \A i \in DOMAIN todoDisplayData.rows :
                  todoDisplayData'.rows[i] =
                      IF todoDisplayData.rows[i].id = last'.rowId
                      THEN [todoDisplayData.rows[i] EXCEPT !.status = last'.status]
                      ELSE todoDisplayData.rows[i]
            /\ \E c \in statusCalls' \ statusCalls :
                  c.rowId = last'.rowId /\ c.status = last'.status
       /\ last'.op = "statusSaved" =>
            /\ todoDisplayData' = todoDisplayData
            /\ todoFetches' = todoFetches /\ todoLoading' = todoLoading
            /\ last'.notify = "success"]_vars

\* a status update was accepted in a mounted view of two rows, one of which
\* shows a status other than its loaded one
C22_Witness ==
    /\ last.op = "statusSaved" /\ route = "todo" /\ mounted
    /\ todoDisplayData # NullData /\ Len(todoDisplayData.rows) = 2
    /\ \E i, j \in DOMAIN todoDisplayData.rows :
          /\ todoDisplayData.rows[i].status #
                StatusOf(todoDisplayData.todoInfo.statuses, todoDisplayData.rows[i].id)
          /\ todoDisplayData.rows[j].status =
                StatusOf(todoDisplayData.todoInfo.statuses, todoDisplayData.rows[j].id)

-----------------------------------------------------------------------------
(* Properties of the handlers as functions, continued (HandlerSpec) *)

\* the payload p has one entry per column and per row of the buffer d, in
\* buffer order, each with the item's id (null for an item without one) and
\* its name, order and width, or its order and cells
PayloadOf(p, d) ==
    /\ DOMAIN p = {"columns", "rows"}
    /\ Len(p.columns) = Len(d.columns) /\ Len(p.rows) = Len(d.rows)
    /\ \A i \in DOMAIN d.columns :
          /\ DOMAIN p.columns[i] = {"id", "name", "order", "width"}
          /\ p.columns[i].id = d.columns[i].id
          /\ p.columns[i].name = d.columns[i].name
          /\ p.columns[i].order = d.columns[i].order
          /\ p.columns[i].width = d.columns[i].width
    /\ \A i \in DOMAIN d.rows :
          /\ DOMAIN p.rows[i] = {"id", "order", "cells"}
          /\ p.rows[i].id = d.rows[i].id
          /\ p.rows[i].order = d.rows[i].order
          /\ p.rows[i].cells = d.rows[i].cells

\* C23: save sends a payload with one entry per buffer column and per buffer
\* row, in buffer order, carrying name, order and width of each column, order
\* and cells of each row, and the item's id or null; save invoked outside
\* edit mode or with no buffer sends nothing and changes no state.
C23_SavePayload ==
    [][last'.op = "saveChanges" =>
          IF ~isEditing \/ editData = NullData
          THEN UNCHANGED <<saves, fetches, ctxVars, viewVars>>
          ELSE \E s \in saves' \ saves :
                  /\ saves' = saves \cup {s}
                  /\ s.live /\ s.slug = pageSlug
                  /\ PayloadOf(s.payload, editData)]_vars

\* a save was sent for a buffer holding a fetched row and an added row, whose
\* entry has the null id
C23_Witness ==
    /\ last.op = "saveChanges" /\ isLoadingSave
    /\ \E s \in saves :
          /\ s.live /\ Len(s.payload.rows) >= 2
          /\ s.payload.rows[1].id # NullId
          /\ s.payload.rows[Len(s.payload.rows)].id = NullId

-----------------------------------------------------------------------------
(* Properties of the session state (AuthSpec) *)

\* C24: when logout resolves, whether its call was accepted or failed, the
\* session is unauthenticated: isAuthenticated false, user null, isLoading
\* false.  No step of register (its start, its success, its failure)
\* changes isAuthenticated or user.
C24_LogoutClearsSession ==
    [][ /\ last'.op \in {"logoutAccepted", "logoutRejected"} =>
              ~isAuthenticated' /\ user' = Null /\ ~isLoading'
        /\ last'.op \in {"register", "registerAccepted", "registerRejected"} =>
              UNCHANGED <<user, isAuthenticated>> ]_vars

\* a logout whose call failed has resolved for a session that was
\* authenticated, and the session is cleared
C24_Witness ==
    /\ last.op = "logoutRejected" /\ last.was
    /\ ~isAuthenticated /\ user = Null /\ ~isLoading

\* C27: deleteRow(rowId) removes at most one row from the edit buffer for
\* every argument, rowId null with several unsaved rows in the buffer
\* included; a row that was not the target of the call is never removed.
C27_DeletesAtMostOne ==
    [][ (last'.op = "handleDeleteRow" /\ isEditing /\ editData # NullData) =>
            Len(editData'.rows) >= Len(editData.rows) - 1 ]_vars


\* C30: once a login has resolved successfully the session stays
\* authenticated with the logged-in user until logout is invoked or an
\* auth-status check issued after that login reports otherwise: the
\* answer (or failure) of a check issued before the login does not reset
\* the session, and neither does any other step that follows the login.
C30_LoginPersists ==
    [][ /\ (/\ isAuthenticated
            /\ last'.op \in {"checkAnswered", "checkFailed"} /\ last'.before
            /\ \A c \in authCalls : c.kind # "logout") =>
               isAuthenticated' /\ user' = user
        /\ (/\ last.op = "loginAccepted"
            /\ last'.op \notin {"loginAccepted", "logoutAccepted", "logoutRejected"}
            /\ ~(last'.op \in {"checkAnswered", "checkFailed"} /\ ~last'.before)) =>
               isAuthenticated' /\ user' = user ]_vars

-----------------------------------------------------------------------------
(* Properties of the handlers invoked during a save (ReentrySpec) *)

\* C25: in a page view at most one save request is in flight at any time:
\* save or toggleEdit invoked while an earlier save has not resolved issues
\* no second request.
C25_OneSaveInFlight == Cardinality({s \in saves : s.live}) <= 1

-----------------------------------------------------------------------------
(* Properties of the todo view, continued (Spec) *)

\* C26: in a mounted todo view, once every changeStatus call of the view has
\* resolved, each row shows the status of the last update the gateway
\* accepted for that row, or its loaded status when none was accepted,
\* whatever the interleaving of the calls, their successes and failures.
\* Whether "last" goes by the order of the calls or of their answers, the
\* status shown is one the gateway accepted for the row.
C26_RowsShowAccepted ==
    (/\ TodoTableRendered
     /\ \A c \in statusCalls : ~c.live) =>
        /\ DOMAIN acceptedStatus = DOMAIN todoDisplayData.rows
        /\ \A i \in DOMAIN acceptedStatus :
              IF acceptedStatus[i].accepted = {}
              THEN todoDisplayData.rows[i].status = acceptedStatus[i].loaded
              ELSE todoDisplayData.rows[i].status \in acceptedStatus[i].accepted

-----------------------------------------------------------------------------
(* Properties of the views across pages (Spec) *)

\* C28: edit mode never carries over from one page to another: when the
\* page identifier changes, or a page view is mounted under an existing
\* PageActionProvider, the view for the new page starts in VIEW (isEditing
\* false); it is in EDITING only after enterEdit on that page.
C28_EditModeNotCarried == last.op = "remount" => ~isEditing

\* C29: in the page view and in the todo view, whenever a fetch for the
\* current identifier is in flight the loading flag of the view is true: no
\* completion or cancellation of an earlier fetch clears the flag while the
\* fetch that superseded it is in flight.
C29_LoadingWhileFetching ==
    /\ (route = "page" /\ mounted) =>
          ((\E f \in fetches : f.live /\ ~f.aborted /\ f.slug = pageSlug) => loading)
    /\ (route = "todo" /\ mounted) =>
          ((\E f \in todoFetches : f.live /\ ~f.aborted /\ f.todoId = todoId) =>
              todoLoading)

====
